---- MODULE Spec2Model ----
(***************************************************************************)
(* Model of handler.py of cfn-generator: the Lambda entry point            *)
(* lambda_handler, its registry of five custom-resource handlers, and the  *)
(* handlers themselves.                                                    *)
(*                                                                         *)
(* Python values are records [ty, s, n, l] (type name, string payload,     *)
(* integer payload, list payload).  A Python dict is the sequence of its   *)
(* items [k, v] in insertion order.  An exception is [type, arg].          *)
(***************************************************************************)
EXTENDS Integers, Sequences, FiniteSets, TLC

VARIABLES
    pc,         \* "idle": the runtime waits for an event; "done": lambda_handler ran
    apis,       \* API Gateway: REST API id -> its set of binary media types
    prev,       \* summary of the preceding invocation when it was a binary toggle
    event,      \* the LifecycleEvent of the current invocation
    world,      \* what the external collaborators answered in this invocation
    invoked,    \* the handlers lambda_handler called, in order
    outcome,    \* what the called handler did: returned data, or raised
    calls,      \* the update_rest_api calls made in this invocation
    escaped,    \* TRUE when an exception propagated out of lambda_handler
    puts        \* the requests.put calls made in this invocation

vars == <<pc, apis, prev, event, world, invoked, outcome, calls, escaped, puts>>

-----------------------------------------------------------------------------
(* Python values *)

PyStr(s)  == [ty |-> "str",      s |-> s,  n |-> 0, l |-> <<>>]
PyInt(n)  == [ty |-> "int",      s |-> "", n |-> n, l |-> <<>>]
PyBool(b) == [ty |-> "bool",     s |-> "", n |-> IF b THEN 1 ELSE 0, l |-> <<>>]
PyList(l) == [ty |-> "list",     s |-> "", n |-> 0, l |-> l]
PyDict    == [ty |-> "dict",     s |-> "", n |-> 0, l |-> <<>>]
PyNone    == [ty |-> "NoneType", s |-> "", n |-> 0, l |-> <<>>]

\* repr() of an integer
ReprInt(n) == IF n < 0 THEN "-" \o ToString(0 - n) ELSE ToString(n)

\* "%r" % value
Repr(v) ==
    CASE v.ty = "str"      -> "'" \o v.s \o "'"
      [] v.ty = "int"      -> ReprInt(v.n)
      [] v.ty = "bool"     -> IF v.n = 1 THEN "True" ELSE "False"
      [] v.ty = "list"     -> "[]"
      [] v.ty = "dict"     -> "{}"
      [] v.ty = "NoneType" -> "None"

(* dict operations on item sequences *)
Has(d, k)  == \E i \in 1..Len(d) : d[i].k = k
Get(d, k)  == d[CHOOSE i \in 1..Len(d) : d[i].k = k].v
GetOr(d, k, default) == IF Has(d, k) THEN Get(d, k) ELSE default
Pop(d, k)  == SelectSeq(d, LAMBDA e : e.k # k)
Keys(d)    == [i \in 1..Len(d) |-> d[i].k]
Item(k, v) == [k |-> k, v |-> v]

(* mappings with string keys whose values differ in kind (the event, the body) *)
With(f, k, v) == [x \in DOMAIN f \cup {k} |-> IF x = k THEN v ELSE f[x]]
\* a del that removes nothing
WithoutNothing(f, k) == f
\* del f[k]
Without(f, k) == [x \in DOMAIN f \ {k} |-> f[x]]

(* exceptions *)
Err(type, arg) == [type |-> type, arg |-> arg]
NoError == Err("", "")

\* repr(e) in the place of str(e)
ReprE(e) == e.type \o "('" \o e.arg \o "')"

\* str(e): a KeyError prints the repr of the missing key, the others their message
StrE(e) == IF e.type = "KeyError" THEN "'" \o e.arg \o "'" ELSE e.arg

(* what a handler call does *)
Return(data) == [raised |-> FALSE, err |-> NoError, none |-> FALSE, data |-> data,
                 calls |-> <<>>]
ReturnNone   == [raised |-> FALSE, err |-> NoError, none |-> TRUE, data |-> <<>>,
                 calls |-> <<>>]
RaiseErr(e)  == [raised |-> TRUE, err |-> e, none |-> FALSE, data |-> <<>>,
                 calls |-> <<>>]
Raise(type, arg) == RaiseErr(Err(type, arg))
NoCall == [raised |-> FALSE, err |-> NoError, none |-> FALSE, data |-> <<>>,
           calls |-> <<>>]

-----------------------------------------------------------------------------
(* Bounds of the model *)

\* most images one describe_images answer holds
MaxImages == 2
\* most bytes one secure_random request asks for
MaxSize == 2

-----------------------------------------------------------------------------
(* Encodings used by the handlers *)

\* the byte values os.urandom and KMS produce in the model, and their characters
ByteValues == {65, 107, 126}
Latin1Char(b) == CASE b = 65 -> "A" [] b = 107 -> "k" [] b = 126 -> "~"

RECURSIVE Join(_)
Join(chars) == IF chars = <<>> THEN "" ELSE Head(chars) \o Join(Tail(chars))

RECURSIVE JoinWith(_, _)
JoinWith(sep, strs) ==
    IF strs = <<>> THEN ""
    ELSE IF Len(strs) = 1 THEN Head(strs)
    ELSE Head(strs) \o sep \o JoinWith(sep, Tail(strs))

\* bytes.decode("iso8859-1")
DecodeLatin1(bytes) == Join([i \in 1..Len(bytes) |-> Latin1Char(bytes[i])])

B16Alphabet == <<"0", "1", "2", "3", "4", "5", "6", "7", "8", "9",
                 "A", "B", "C", "D", "E", "F">>
\* b16encode: two upper-case digits per byte
b16encode(bytes) ==
    [i \in 1..(2 * Len(bytes)) |->
        LET b == bytes[(i + 1) \div 2]
        IN  IF i % 2 = 1 THEN B16Alphabet[(b \div 16) + 1]
            ELSE B16Alphabet[(b % 16) + 1]]
LowerChar(c) ==
    CASE c = "A" -> "a" [] c = "B" -> "b" [] c = "C" -> "c"
      [] c = "D" -> "d" [] c = "E" -> "e" [] c = "F" -> "f" [] OTHER -> c
\* str.lower() over the characters of a string
Lower(chars) == [i \in 1..Len(chars) |-> LowerChar(chars[i])]

B64Alphabet ==
    <<"A","B","C","D","E","F","G","H","I","J","K","L","M","N","O","P",
      "Q","R","S","T","U","V","W","X","Y","Z","a","b","c","d","e","f",
      "g","h","i","j","k","l","m","n","o","p","q","r","s","t","u","v",
      "w","x","y","z","0","1","2","3","4","5","6","7","8","9","+","/">>
B64(n) == B64Alphabet[(n % 64) + 1]
\* b64encode: three bytes to four characters, the last group padded with "="
RECURSIVE b64encode(_)
b64encode(bytes) ==
    IF bytes = <<>> THEN ""
    ELSE IF Len(bytes) = 1 THEN
        LET n == bytes[1] * 65536
        IN  B64(n \div 262144) \o B64(n \div 4096) \o "=="
    ELSE IF Len(bytes) = 2 THEN
        LET n == bytes[1] * 65536 + bytes[2] * 256
        IN  B64(n \div 262144) \o B64(n \div 4096) \o B64(n \div 64) \o "="
    ELSE
        LET n == bytes[1] * 65536 + bytes[2] * 256 + bytes[3]
        IN  B64(n \div 262144) \o B64(n \div 4096) \o B64(n \div 64) \o B64(n)
            \o b64encode(SubSeq(bytes, 4, Len(bytes)))

\* the decimal strings of the model and int() of them
DecimalInts == (0 - 1)..(MaxSize + 1)
IsDecimal(s) == \E n \in DecimalInts : ReprInt(n) = s
DecimalValue(s) == CHOOSE n \in DecimalInts : ReprInt(n) = s

-----------------------------------------------------------------------------
(* Custom::ApiGatewayBinary *)

\* apigw.get_rest_api: the answer carries binaryMediaTypes only when there are some
get_rest_api(gw, restApiId) ==
    [found |-> restApiId \in DOMAIN gw,
     hasBinaryMediaTypes |-> restApiId \in DOMAIN gw /\ gw[restApiId] # {},
     binaryMediaTypes |-> IF restApiId \in DOMAIN gw THEN gw[restApiId] ELSE {}]

\* the media type a patch path names ("~1" is the JSON-pointer escape of "/")
PatchMediaType(path) == CASE path = "/binaryMediaTypes/*~1*" -> "*/*"

\* apigw.update_rest_api: the API after one patch operation
update_rest_api(gw, call) ==
    [gw EXCEPT ![call.restApiId] =
        IF call.op = "add" THEN @ \cup {PatchMediaType(call.path)}
        ELSE @ \ {PatchMediaType(call.path)}]

RECURSIVE ApplyCalls(_, _)
ApplyCalls(gw, cs) ==
    IF cs = <<>> THEN gw ELSE ApplyCalls(update_rest_api(gw, Head(cs)), Tail(cs))

\* a test for the wildcard being the only binary media type
BinaryEnabledAlone(rest_api_info) ==
    rest_api_info.hasBinaryMediaTypes /\ rest_api_info.binaryMediaTypes = {"*/*"}

\* binary_enabled: "binaryMediaTypes" in rest_api_info and "*/*" in it
BinaryEnabled(rest_api_info) ==
    rest_api_info.hasBinaryMediaTypes /\ "*/*" \in rest_api_info.binaryMediaTypes

api_gateway_binary(ev, gw) ==
    LET request_type == ev.RequestType
        rp == ev.ResourceProperties
    IN  IF ~Has(rp, "RestApiId") THEN Raise("KeyError", "RestApiId")
        ELSE
        LET rest_api_id == Get(rp, "RestApiId").s
            rest_api_info == get_rest_api(gw, rest_api_id)
            binary_enabled == BinaryEnabled(rest_api_info)
            patch(op) == [restApiId |-> rest_api_id, op |-> op,
                          path |-> "/binaryMediaTypes/*~1*"]
        IN  IF ~rest_api_info.found
            THEN Raise("NotFoundException", "Invalid API identifier specified")
            ELSE IF request_type \in {"Create", "Update"}
            THEN [ReturnNone EXCEPT
                    !.calls = IF ~binary_enabled THEN <<patch("add")>> ELSE <<>>]
            ELSE IF request_type = "Delete"
            THEN [ReturnNone EXCEPT
                    !.calls = IF binary_enabled THEN <<patch("remove")>> ELSE <<>>]
            ELSE ReturnNone

-----------------------------------------------------------------------------
(* Custom::FindImage *)

\* iso8601.parse_date on the creation dates of the model: the instant, in hours
\* since 2020-01-01T00:00Z; the second date is the first in another time zone
parse_date(s) ==
    CASE s = "2020-01-01T00:00:00.000Z"      -> 0
      [] s = "2020-01-01T01:00:00.000+01:00" -> 0
      [] s = "2021-01-01T00:00:00.000Z"      -> 8784

\* sort_key(image): (preferred virtualization, preferred root device, date)
sort_key(image, preferred_virtualization_type, preferred_root_device_type) ==
    LET date == parse_date(image.CreationDate)
        is_preferred_virtualization_type ==
            preferred_virtualization_type = PyNone
            \/ PyStr(image.VirtualizationType) = preferred_virtualization_type
        is_preferred_root_device_type ==
            preferred_root_device_type = PyNone
            \/ PyStr(image.RootDeviceType) = preferred_root_device_type
    IN  <<is_preferred_virtualization_type, is_preferred_root_device_type, date>>

\* tuple comparison a < b: False < True, then the dates
BoolLess(a, b) == ~a /\ b
KeyLess(a, b) ==
    \/ BoolLess(a[1], b[1])
    \/ a[1] = b[1] /\ BoolLess(a[2], b[2])
    \/ a[1] = b[1] /\ a[2] = b[2] /\ a[3] < b[3]

Reverse(seq) == [i \in 1..Len(seq) |-> seq[Len(seq) + 1 - i]]

\* x put behind every element whose key is not greater than its own
RECURSIVE InsertStable(_, _)
InsertStable(sorted, x) ==
    IF sorted = <<>> THEN <<x>>
    ELSE IF KeyLess(x.key, Head(sorted).key) THEN <<x>> \o sorted
    ELSE <<Head(sorted)>> \o InsertStable(Tail(sorted), x)

\* a stable ascending sort of [key, item] pairs by key
RECURSIVE SortStable(_)
SortStable(seq) ==
    IF seq = <<>> THEN <<>>
    ELSE InsertStable(SortStable(SubSeq(seq, 1, Len(seq) - 1)), seq[Len(seq)])

\* an ascending sort read backwards: equal keys swap their order
SortThenReverse(seq) == Reverse(SortStable(seq))

\* list.sort(key=key, reverse=True): the list is reversed, sorted stably in
\* ascending order and reversed again, so equal keys keep their order
SortReverse(seq) == Reverse(SortStable(Reverse(seq)))

\* amifilter.filter_names_and_descriptions: the images the name and description
\* patterns of the request keep, in their order
filter_names_and_descriptions(images, kept) ==
    LET F[i \in 0..Len(images)] ==
            IF i = 0 THEN <<>>
            ELSE IF i \in kept THEN Append(F[i - 1], images[i]) ELSE F[i - 1]
    IN  F[Len(images)]

find_image(ev, w) ==
    IF ev.RequestType \notin {"Create", "Update"} THEN ReturnNone
    ELSE
    LET rp == ev.ResourceProperties
    IN  IF ~Has(rp, "Owner") THEN Raise("ValueError", "Owner must be specified")
        ELSE IF ~w.imagesKey \/ w.images = <<>>
        THEN Raise("ValueError", "No AMIs found that match the filters applied.")
        ELSE
        LET images == filter_names_and_descriptions(w.images, w.kept)
            preferred_virtualization_type ==
                GetOr(rp, "PreferredVirtualizationType", PyNone)
            preferred_root_device_type ==
                GetOr(rp, "PreferredRootDeviceType", PyNone)
            keyed == [i \in 1..Len(images) |->
                        [key |-> sort_key(images[i], preferred_virtualization_type,
                                          preferred_root_device_type),
                         item |-> images[i]]]
            sorted == SortReverse(keyed)
            image_ids == [i \in 1..Len(sorted) |-> sorted[i].item.ImageId]
        IN  IF image_ids = <<>> THEN Raise("IndexError", "list index out of range")
            ELSE Return(<<Item("ImageId", PyStr(image_ids[1])),
                          Item("MatchingImageIds", PyList(image_ids))>>)

-----------------------------------------------------------------------------
(* Custom::GeneratePassword *)

\* the error handle_genphrase_properties raises, or NoError
handle_genphrase_properties(rp) ==
    IF Has(rp, "Chars")
    THEN Err("ValueError", "Chars cannot be specified when PasswordType is \"phrase\"")
    ELSE IF Has(rp, "Charset")
    THEN Err("ValueError", "Charset cannot be specified when PasswordType is \"phrase\"")
    ELSE IF Has(rp, "Wordset") /\ Has(rp, "Words")
    THEN Err("ValueError", "Words and Wordset are mutually exclusive")
    ELSE NoError

\* the error handle_genword_properties raises, or NoError
handle_genword_properties(rp) ==
    IF Has(rp, "Words")
    THEN Err("ValueError", "Words cannot be specified when PasswordType is \"word\"")
    ELSE IF Has(rp, "Wordset")
    THEN Err("ValueError", "Wordset cannot be specified when PasswordType is \"word\"")
    ELSE IF Has(rp, "Charset") /\ Has(rp, "Chars")
    THEN Err("ValueError", "Chars and Charset are mutually exclusive")
    ELSE IF Has(rp, "Separator")
    THEN Err("ValueError", "Separator cannot be specified when PasswordType is \"word\"")
    ELSE NoError

generate_password(ev, w) ==
    IF ev.RequestType \notin {"Create", "Update"} THEN ReturnNone
    ELSE
    LET rp == ev.ResourceProperties
        password_type == GetOr(rp, "PasswordType", PyStr("word"))
        properties ==
            IF password_type = PyStr("phrase") THEN handle_genphrase_properties(rp)
            ELSE IF password_type = PyStr("word") THEN handle_genword_properties(rp)
            ELSE Err("ValueError",
                     "PasswordType must be \"word\" or \"phrase\": " \o Repr(password_type))
        entropy == GetOr(rp, "Entropy", PyNone)
        encryption_key == GetOr(rp, "EncryptionKey", PyNone)
    IN  IF properties # NoError THEN RaiseErr(properties)
        ELSE IF entropy # PyNone /\ entropy.ty \notin {"int", "bool"}
        THEN Raise("ValueError", "Entropy must be an integer: " \o Repr(entropy))
        ELSE IF encryption_key # PyNone
        THEN IF ~w.kmsOk
             THEN Raise("ClientError", "An error occurred when calling the Encrypt operation")
             ELSE Return(<<Item("CiphertextBase64Password", PyStr(b64encode(w.blob)))>>)
        ELSE Return(<<Item("PlaintextPassword", PyStr(w.password))>>)

-----------------------------------------------------------------------------
(* Custom::SecureRandom *)

\* int(size) and the check size > 0: the size, or the error raised
SizeOf(size) ==
    IF size.ty \in {"list", "dict", "NoneType"}
    THEN [ok |-> FALSE, n |-> 0,
          err |-> Err("TypeError", "int() argument must be a string, a bytes-like object or a number")]
    ELSE IF size.ty = "str" /\ ~IsDecimal(size.s)
    THEN [ok |-> FALSE, n |-> 0,
          err |-> Err("ValueError", "Invalid size parameter: " \o Repr(size))]
    ELSE
    LET n == IF size.ty = "str" THEN DecimalValue(size.s) ELSE size.n
    IN  IF n <= 0
        THEN [ok |-> FALSE, n |-> n,
              err |-> Err("ValueError", "Invalid size parameter: " \o ReprInt(n))]
        ELSE [ok |-> TRUE, n |-> n, err |-> NoError]

secure_random(ev, w) ==
    IF ev.RequestType \notin {"Create", "Update"} THEN ReturnNone
    ELSE IF ~Has(ev.ResourceProperties, "Size") THEN Raise("KeyError", "Size")
    ELSE
    LET size == SizeOf(Get(ev.ResourceProperties, "Size"))
        result == w.random
    IN  IF ~size.ok THEN RaiseErr(size.err)
        ELSE Return(<<Item("Raw", PyStr(DecodeLatin1(result))),
                      Item("Hex", PyStr(Join(Lower(b16encode(result))))),
                      Item("Base64", PyStr(b64encode(result)))>>)

-----------------------------------------------------------------------------
(* Custom::HashPassword *)

\* the byte strings of the model
ByteStrings == UNION {[1..n -> ByteValues] : n \in 0..MaxSize}

\* b64decode: the bytes a string encodes; a ValueError when it encodes none
IsBase64(s) == \E bytes \in ByteStrings : b64encode(bytes) = s
b64decode(s) == CHOOSE bytes \in ByteStrings : b64encode(bytes) = s

\* str.lower() on the truth words of the model
LowerWord(s) ==
    CASE s = "True" -> "true" [] s = "False" -> "false" [] s = "YES" -> "yes"
      [] OTHER -> s

\* distutils.util.strtobool: 1, 0, or a ValueError
strtobool(val) ==
    LET v == LowerWord(val)
    IN  IF v \in {"y", "yes", "t", "true", "on", "1"} THEN [ok |-> TRUE, n |-> 1]
        ELSE IF v \in {"n", "no", "f", "false", "off", "0"} THEN [ok |-> TRUE, n |-> 0]
        ELSE [ok |-> FALSE, n |-> 0]

\* bool(value) of a value that is neither a string nor a list, tuple or dict
Truthy(v) == v.ty \in {"int", "bool"} /\ v.n # 0

\* hashparams.HashAlgorithm.algorithms: the registry of schemes.  A bound of a
\* parameter is the empty set when it is None.
HashParameter(name, algorithm_parameter, type, min_length, max_length, min_value, max_value) ==
    [name |-> name, algorithm_parameter |-> algorithm_parameter, type |-> type,
     validator |-> {}, min_length |-> min_length, max_length |-> max_length,
     min_value |-> min_value, max_value |-> max_value]
HashAlgorithms ==
    [pbkdf2_sha256 |->
        [name |-> "pbkdf2_sha256", is_secure |-> TRUE,
         parameters |-> <<HashParameter("Rounds", "rounds", "int", {}, {}, {1}, {2}),
                          HashParameter("Salt", "salt", "str", {1}, {2}, {}, {})>>],
     md5_crypt |->
        [name |-> "md5_crypt", is_secure |-> FALSE,
         parameters |-> <<HashParameter("Salt", "salt", "str", {}, {2}, {}, {})>>]]

\* scheme.replace("-", "_") on the scheme names of the model
ReplaceHyphens(scheme) ==
    CASE scheme = "pbkdf2-sha256" -> "pbkdf2_sha256"
      [] scheme = "md5-crypt" -> "md5_crypt"
      [] OTHER -> scheme

Failed(type, arg) == [ok |-> FALSE, err |-> Err(type, arg)]

\* get_hash_algorithm with Scheme examined before AllowInsecure
GetHashAlgorithmSchemeFirst(request_properties) ==
    LET scheme == GetOr(request_properties, "Scheme", PyNone)
        given == GetOr(request_properties, "AllowInsecure", PyBool(FALSE))
        rest == Pop(Pop(request_properties, "Scheme"), "AllowInsecure")
        allow_insecure ==
            IF given.ty = "str" THEN strtobool(given.s).n = 1 ELSE Truthy(given)
        name == ReplaceHyphens(scheme.s)
    IN  IF scheme = PyNone
        THEN Failed("ValueError", "Scheme must be specified")
        ELSE IF scheme.ty # "str"
        THEN Failed("TypeError", "Scheme must be a string")
        ELSE IF scheme.s = ""
        THEN Failed("ValueError", "Scheme cannot be empty")
        ELSE IF given.ty = "str" /\ ~strtobool(given.s).ok
        THEN Failed("ValueError", "invalid truth value " \o Repr(PyStr(LowerWord(given.s))))
        ELSE IF given.ty \in {"list", "tuple", "dict"}
        THEN Failed("TypeError", "AllowInsecure must be true or false")
        ELSE IF name \notin DOMAIN HashAlgorithms
        THEN Failed("ValueError", "Unknown scheme " \o Repr(scheme))
        ELSE IF ~HashAlgorithms[name].is_secure /\ ~allow_insecure
        THEN Failed("ValueError", "Scheme " \o scheme.s
                    \o " is insecure and AllowInsecure was not specified")
        ELSE [ok |-> TRUE, err |-> NoError, algorithm |-> HashAlgorithms[name],
              rp |-> rest]

\* get_hash_algorithm: the algorithm and the properties left, or the error
get_hash_algorithm(request_properties) ==
    LET scheme == GetOr(request_properties, "Scheme", PyNone)
        given == GetOr(request_properties, "AllowInsecure", PyBool(FALSE))
        rest == Pop(Pop(request_properties, "Scheme"), "AllowInsecure")
        allow_insecure ==
            IF given.ty = "str" THEN strtobool(given.s).n = 1 ELSE Truthy(given)
        name == ReplaceHyphens(scheme.s)
    IN  IF given.ty = "str" /\ ~strtobool(given.s).ok
        THEN Failed("ValueError", "invalid truth value " \o Repr(PyStr(LowerWord(given.s))))
        ELSE IF given.ty \in {"list", "tuple", "dict"}
        THEN Failed("TypeError", "AllowInsecure must be true or false")
        ELSE IF scheme = PyNone
        THEN Failed("ValueError", "Scheme must be specified")
        ELSE IF scheme.ty # "str"
        THEN Failed("TypeError", "Scheme must be a string")
        ELSE IF scheme.s = ""
        THEN Failed("ValueError", "Scheme cannot be empty")
        ELSE IF name \notin DOMAIN HashAlgorithms
        THEN Failed("ValueError", "Unknown scheme " \o Repr(scheme))
        ELSE IF ~HashAlgorithms[name].is_secure /\ ~allow_insecure
        THEN Failed("ValueError", "Scheme " \o scheme.s
                    \o " is insecure and AllowInsecure was not specified")
        ELSE [ok |-> TRUE, err |-> NoError, algorithm |-> HashAlgorithms[name],
              rp |-> rest]

Only(set) == CHOOSE x \in set : TRUE

\* validate_hash_parameter: the converted value, or the error
validate_hash_parameter(parameter, name, value) ==
    LET convertible ==
            \/ parameter.type = "str"
            \/ parameter.type = "int" /\ value.ty \in {"int", "bool"}
            \/ parameter.type = "int" /\ value.ty = "str" /\ IsDecimal(value.s)
        converted ==
            IF parameter.type = "int"
            THEN PyInt(IF value.ty = "str" THEN DecimalValue(value.s) ELSE value.n)
            ELSE IF value.ty = "str" THEN value ELSE PyStr(Repr(value))
        length == Len(converted.s)
    IN  IF ~convertible
        THEN Failed("ValueError", "Invalid value for parameter " \o name \o ": "
                    \o Repr(value))
        ELSE IF converted \in parameter.validator
        THEN Failed("ValueError", "Invalid value for parameter " \o name)
        ELSE IF parameter.min_length # {} /\ length < Only(parameter.min_length)
        THEN Failed("ValueError", "Length of parameter " \o name
                    \o " cannot be less than " \o ReprInt(Only(parameter.min_length))
                    \o ": " \o Repr(converted))
        ELSE IF parameter.max_length # {} /\ length > Only(parameter.max_length)
        THEN Failed("ValueError", "Length of parameter " \o name
                    \o " cannot be greater than " \o ReprInt(Only(parameter.max_length))
                    \o ": " \o Repr(converted))
        ELSE IF parameter.min_value # {} /\ converted.n < Only(parameter.min_value)
        THEN Failed("ValueError", "Value of parameter " \o name
                    \o " cannot be less than " \o ReprInt(Only(parameter.min_value))
                    \o ": " \o Repr(converted))
        ELSE IF parameter.max_value # {} /\ converted.n > Only(parameter.max_value)
        THEN Failed("ValueError", "Value of parameter " \o name
                    \o " cannot be greater than " \o ReprInt(Only(parameter.max_value))
                    \o ": " \o Repr(converted))
        ELSE [ok |-> TRUE, err |-> NoError, value |-> converted]

\* the loop over algorithm.parameters: the properties left and the builder
\* keywords, or the first validation error
RECURSIVE ParseParameters(_, _, _)
ParseParameters(parameters, rp, builder_kw) ==
    IF parameters = <<>>
    THEN [ok |-> TRUE, err |-> NoError, rp |-> rp, builder_kw |-> builder_kw]
    ELSE
    LET parameter == Head(parameters)
    IN  IF ~Has(rp, parameter.name)
        THEN ParseParameters(Tail(parameters), rp, builder_kw)
        ELSE
        LET checked == validate_hash_parameter(parameter, parameter.name,
                                               Get(rp, parameter.name))
        IN  IF ~checked.ok THEN [ok |-> FALSE, err |-> checked.err, rp |-> rp,
                                 builder_kw |-> builder_kw]
            ELSE ParseParameters(Tail(parameters), Pop(rp, parameter.name),
                                 Append(builder_kw,
                                        Item(parameter.algorithm_parameter,
                                             checked.value)))

\* the property names of the model in the order of Python's string comparison
KeyOrder == <<"AllowInsecure", "CiphertextBase64Password", "EncryptionContext",
              "Extra", "PlaintextPassword", "Rounds", "Salt", "Scheme",
              "ServiceToken", "Zone">>
KeyRank(k) == CHOOSE i \in 1..Len(KeyOrder) : KeyOrder[i] = k

\* sorted(keys)
RECURSIVE InsertKey(_, _)
InsertKey(sorted, k) ==
    IF sorted = <<>> THEN <<k>>
    ELSE IF KeyRank(k) < KeyRank(Head(sorted)) THEN <<k>> \o sorted
    ELSE <<Head(sorted)>> \o InsertKey(Tail(sorted), k)
\* the keys as the dict holds them
UnsortedKeys(keys) == keys
RECURSIVE SortedKeys(_)
SortedKeys(keys) ==
    IF keys = <<>> THEN <<>>
    ELSE InsertKey(SortedKeys(SubSeq(keys, 1, Len(keys) - 1)), keys[Len(keys)])

\* handle_plaintext_password_hash_params
handle_plaintext_password_hash_params(request_properties) ==
    LET plaintext_password == Get(request_properties, "PlaintextPassword")
    IN  IF plaintext_password.ty # "str"
        THEN Failed("TypeError", "PlaintextPassword must be a string")
        ELSE [ok |-> TRUE, err |-> NoError, password |-> plaintext_password.s,
              rp |-> Pop(request_properties, "PlaintextPassword")]

\* handle_ciphertext_password_hash_params
handle_ciphertext_password_hash_params(request_properties, w) ==
    LET ciphertext_b64_password == Get(request_properties, "CiphertextBase64Password")
        encryption_context == GetOr(request_properties, "EncryptionContext", PyNone)
    IN  IF ciphertext_b64_password.ty # "str"
        THEN Failed("TypeError", "CiphertextBase64Password must be a string")
        ELSE IF encryption_context # PyNone /\ encryption_context.ty # "dict"
        THEN Failed("TypeError", "EncryptionContext must be a mapping")
        ELSE IF ~IsBase64(ciphertext_b64_password.s)
        THEN Failed("ValueError", "Invalid base64 encoding in CiphertextBase64Password")
        ELSE IF ~w.kmsOk
        THEN Failed("ValueError", "Unable to decrypt CiphertextBase64Password")
        ELSE [ok |-> TRUE, err |-> NoError, password |-> w.password,
              rp |-> Pop(Pop(request_properties, "CiphertextBase64Password"),
                         "EncryptionContext")]

hash_password(ev, w) ==
    IF ev.RequestType \notin {"Create", "Update"} THEN ReturnNone
    ELSE
    LET rp == ev.ResourceProperties
    IN  IF Has(rp, "PlaintextPassword") /\ Has(rp, "CiphertextBase64Password")
        THEN Raise("ValueError",
                   "PlaintextPassword and CiphertextBase64Password are mutually exclusive")
        ELSE IF ~Has(rp, "PlaintextPassword") /\ ~Has(rp, "CiphertextBase64Password")
        THEN Raise("ValueError",
                   "Either PlaintextPassword or CiphertextBase64Password must be specified")
        ELSE
        LET source == IF Has(rp, "PlaintextPassword")
                      THEN handle_plaintext_password_hash_params(rp)
                      ELSE handle_ciphertext_password_hash_params(rp, w)
        IN  IF ~source.ok THEN RaiseErr(source.err)
            ELSE
            LET found == get_hash_algorithm(source.rp)
            IN  IF ~found.ok THEN RaiseErr(found.err)
                ELSE
                LET parsed == ParseParameters(found.algorithm.parameters, found.rp, <<>>)
                    left == Pop(parsed.rp, "ServiceToken")
                IN  IF ~parsed.ok THEN RaiseErr(parsed.err)
                    ELSE IF left # <<>>
                    THEN Raise("ValueError", "Unknown parameters: "
                               \o JoinWith(", ", SortedKeys(Keys(left))))
                    ELSE Return(<<Item("Hash", PyStr(w.hash))>>)

-----------------------------------------------------------------------------
(* lambda_handler *)

\* the registry of handlers, by resource type
handlers ==
    ("Custom::ApiGatewayBinary" :> "api_gateway_binary")
    @@ ("Custom::FindImage" :> "find_image")
    @@ ("Custom::GeneratePassword" :> "generate_password")
    @@ ("Custom::HashPassword" :> "hash_password")
    @@ ("Custom::SecureRandom" :> "secure_random")

\* a lookup that ignores the case of the resource type
HandlersGetAnyCase(resource_type) ==
    IF resource_type \in DOMAIN handlers THEN handlers[resource_type]
    ELSE IF resource_type = "CUSTOM::SECURERANDOM" THEN "secure_random"
    ELSE IF resource_type = "custom::findimage" THEN "find_image"
    ELSE "None"

\* handlers.get(resource_type)
HandlersGet(resource_type) ==
    IF resource_type \in DOMAIN handlers THEN handlers[resource_type] ELSE "None"

\* handler(event)
CallHandler(handler, ev, w, gw) ==
    CASE handler = "api_gateway_binary" -> api_gateway_binary(ev, gw)
      [] handler = "find_image"         -> find_image(ev, w)
      [] handler = "generate_password"  -> generate_password(ev, w)
      [] handler = "hash_password"      -> hash_password(ev, w)
      [] handler = "secure_random"      -> secure_random(ev, w)

\* the exception classes the model raises; all of them derive from Exception
ExceptionClasses == {"ValueError", "TypeError", "KeyError", "IndexError",
                     "ClientError", "NotFoundException"}
\* except ValueError in the place of except Exception
CaughtWhenValueError(e) == e.type = "ValueError"
\* except Exception
CaughtByHandler(e) == e.type \in ExceptionClasses

\* the body lambda_handler builds, up to the call of json_dumps
ResponseBody(ev, handler, r, w) ==
    LET initial == [Status |-> "FAILED", Reason |-> "Unknown error",
                    StackId |-> ev.StackId, RequestId |-> ev.RequestId,
                    LogicalResourceId |-> ev.LogicalResourceId]
        first == IF "PhysicalResourceId" \in DOMAIN ev
                 THEN With(initial, "PhysicalResourceId", ev.PhysicalResourceId)
                 ELSE initial
        data == IF r.none THEN <<>> ELSE r.data
        handled ==
            IF handler = "None"
            THEN [first EXCEPT !.Reason = "Unknown resource type " \o ev.ResourceType]
            ELSE IF r.raised
            THEN [first EXCEPT !.Reason = StrE(r.err)]
            ELSE
            LET identified ==
                    IF Has(data, "PhysicalResourceId")
                    THEN With(first, "PhysicalResourceId",
                              Get(data, "PhysicalResourceId").s)
                    ELSE first
                succeeded == [identified EXCEPT !.Status = "SUCCESS"]
            IN  With(Without(succeeded, "Reason"), "Data",
                     Pop(data, "PhysicalResourceId"))
    IN  IF "PhysicalResourceId" \notin DOMAIN handled
        THEN With(handled, "PhysicalResourceId", w.uuid)
        ELSE handled

\* the runtime holds no invocation and accepts the next event
Idle == pc = "idle"

\* one invocation of lambda_handler, from the event to the PUT of the response
LambdaHandler(ev, w) ==
    /\ pc = "idle"
    /\ \E handler \in {HandlersGet(ev.ResourceType)} :
       \E r \in {IF handler = "None" THEN NoCall
                 ELSE CallHandler(handler, ev, w, apis)} :
       \E propagates \in {r.raised /\ ~CaughtByHandler(r.err)} :
        /\ pc' = "done"
        /\ event' = ev
        /\ world' = w
        /\ invoked' = IF handler = "None" THEN <<>> ELSE <<handler>>
        /\ outcome' = r
        /\ calls' = r.calls
        /\ apis' = ApplyCalls(apis, r.calls)
        /\ escaped' = propagates
        /\ puts' = IF propagates THEN <<>>
                   ELSE <<[url |-> ev.ResponseURL,
                           data |-> ResponseBody(ev, handler, r, w)]>>
        /\ UNCHANGED prev

\* return: the invocation is over and the runtime waits for the next event
ReturnToRuntime ==
    /\ pc = "done"
    /\ pc' = "idle"
    /\ prev' = IF event.ResourceType = "Custom::ApiGatewayBinary"
               THEN [toggle |-> TRUE, req |-> event.RequestType,
                     api |-> GetOr(event.ResourceProperties, "RestApiId", PyNone),
                     failed |-> outcome.raised]
               ELSE [toggle |-> FALSE, req |-> "", api |-> PyNone, failed |-> FALSE]
    /\ event' = [ResourceType |-> "", RequestType |-> "", ResourceProperties |-> <<>>]
    /\ world' = [images |-> <<>>, imagesKey |-> FALSE, kept |-> {}, password |-> "",
                 kmsOk |-> TRUE, blob |-> <<>>, random |-> <<>>, hash |-> "",
                 uuid |-> ""]
    /\ invoked' = <<>>
    /\ outcome' = NoCall
    /\ calls' = <<>>
    /\ escaped' = FALSE
    /\ puts' = <<>>
    /\ UNCHANGED apis

-----------------------------------------------------------------------------
(* The events and the answers of the collaborators the model draws from *)

RequestTypes == {"Create", "Update", "Delete"}

LifecycleEvent(resource_type, request_type, rp, physical) ==
    LET ev == [RequestType |-> request_type, ResourceType |-> resource_type,
               ResourceProperties |-> rp, StackId |-> "stack-1",
               RequestId |-> "request-1", LogicalResourceId |-> "Resource",
               ResponseURL |-> "https://cloudformation.example/response"]
    IN  IF physical THEN With(ev, "PhysicalResourceId", "physical-1") ELSE ev

Quiet == [images |-> <<>>, imagesKey |-> FALSE, kept |-> {}, password |-> "",
          kmsOk |-> TRUE, blob |-> <<>>, random |-> <<>>, hash |-> "",
          uuid |-> "uuid-1"]

\* an optional property: absent, or one of the values
Optional(key, values) == {<<>>} \cup {<<Item(key, v)>> : v \in values}

ImageProfiles ==
    [CreationDate : {"2020-01-01T00:00:00.000Z", "2020-01-01T01:00:00.000+01:00",
                     "2021-01-01T00:00:00.000Z"},
     VirtualizationType : {"hvm", "paravirtual"},
     RootDeviceType : {"ebs", "instance-store"}]
FewImageProfiles ==
    {p \in ImageProfiles : /\ p.RootDeviceType = "ebs"
                           /\ p.VirtualizationType = "hvm"
                           /\ p.CreationDate # "2020-01-01T01:00:00.000+01:00"}

\* an answer of describe_images: images with distinct identifiers
DescribedImages(choice) ==
    [i \in 1..Len(choice) |->
        [ImageId |-> "ami-" \o ToString(i),
         CreationDate |-> choice[i].CreationDate,
         VirtualizationType |-> choice[i].VirtualizationType,
         RootDeviceType |-> choice[i].RootDeviceType]]

\* the password source of a hash request, with the answer of KMS
PlaintextSources ==
    {[rp |-> <<Item("PlaintextPassword", PyStr("hunter2"))>>, w |-> Quiet]}
OtherSources ==
    {[rp |-> <<>>, w |-> Quiet],
     [rp |-> <<Item("PlaintextPassword", PyInt(7))>>, w |-> Quiet],
     [rp |-> <<Item("PlaintextPassword", PyStr("hunter2")),
               Item("CiphertextBase64Password", PyStr("QQ=="))>>, w |-> Quiet],
     [rp |-> <<Item("PlaintextPassword", PyStr("hunter2")),
               Item("EncryptionContext", PyDict)>>, w |-> Quiet],
     [rp |-> <<Item("CiphertextBase64Password", PyStr("QQ=="))>>,
      w |-> [Quiet EXCEPT !.password = "hunter2"]],
     [rp |-> <<Item("CiphertextBase64Password", PyStr("QQ=="))>>,
      w |-> [Quiet EXCEPT !.kmsOk = FALSE]],
     [rp |-> <<Item("CiphertextBase64Password", PyStr("QQ"))>>, w |-> Quiet],
     [rp |-> <<Item("CiphertextBase64Password", PyStr("QQ==")),
               Item("EncryptionContext", PyDict)>>,
      w |-> [Quiet EXCEPT !.password = "hunter2"]],
     [rp |-> <<Item("CiphertextBase64Password", PyStr("QQ==")),
               Item("EncryptionContext", PyStr("stack"))>>, w |-> Quiet]}

Schemes == Optional("Scheme", {PyStr("pbkdf2-sha256"), PyStr("md5_crypt"),
                               PyStr("whirlpool"), PyStr(""), PyInt(5)})
FewSchemes == Optional("Scheme", {PyStr("pbkdf2-sha256"), PyStr("md5_crypt")})

AllowInsecures ==
    Optional("AllowInsecure",
             {PyBool(TRUE), PyBool(FALSE), PyStr("True"), PyStr("yes"), PyStr("no"),
              PyStr("maybe"), PyList(<<>>), PyDict, PyInt(1), PyInt(0), PyNone})
FewAllowInsecures == Optional("AllowInsecure", {PyBool(TRUE), PyList(<<>>)})

SchemeParameters ==
    {<<>>,
     <<Item("Rounds", PyStr("1"))>>,
     <<Item("Rounds", PyStr("many"))>>,
     <<Item("Rounds", PyInt(3))>>,
     <<Item("Salt", PyStr("ab"))>>,
     <<Item("Salt", PyStr("abc"))>>,
     <<Item("Salt", PyStr("ab")), Item("Rounds", PyInt(2))>>}
FewSchemeParameters == {<<>>, <<Item("Rounds", PyStr("many"))>>}

OtherProperties ==
    {<<>>,
     <<Item("ServiceToken", PyStr("arn:aws:lambda"))>>,
     <<Item("Extra", PyStr("1"))>>,
     <<Item("Zone", PyStr("a")), Item("Extra", PyStr("1"))>>,
     <<Item("Extra", PyStr("1")), Item("Zone", PyStr("a"))>>,
     <<Item("Zone", PyStr("a")), Item("ServiceToken", PyStr("arn:aws:lambda")),
       Item("Extra", PyStr("1"))>>}
FewOtherProperties == {<<>>, <<Item("Extra", PyStr("1"))>>}

-----------------------------------------------------------------------------
(* The invocations *)

InvokeApiGatewayBinary ==
    Idle /\ \E req \in RequestTypes, physical \in BOOLEAN,
       rp \in {<<>>, <<Item("RestApiId", PyStr("a1b2c3"))>>,
               <<Item("RestApiId", PyStr("gone"))>>} :
        LambdaHandler(LifecycleEvent("Custom::ApiGatewayBinary", req, rp, physical),
                      Quiet)

UnregisteredTypes == {"custom::findimage", "Custom::DynamoDB::Item",
                      "CUSTOM::SECURERANDOM", "AWS::S3::Bucket"}
InvokeUnregistered ==
    Idle /\ \E type \in UnregisteredTypes, req \in RequestTypes, physical \in BOOLEAN :
        LambdaHandler(LifecycleEvent(type, req, <<Item("Size", PyStr("1"))>>, physical),
                      Quiet)

\* find_image with the lookup answering up to MaxImages images of the profiles
FindImageOver(profiles, reqs) ==
    \/ \E req \in reqs,
          pv \in Optional("PreferredVirtualizationType", {PyStr("paravirtual")}),
          pr \in Optional("PreferredRootDeviceType", {PyStr("ebs")}),
          n \in 1..MaxImages :
        \E choice \in [1..n -> profiles], kept \in SUBSET (1..n) :
            LambdaHandler(
                LifecycleEvent("Custom::FindImage", req,
                               <<Item("Owner", PyStr("amazon"))>> \o pv \o pr, FALSE),
                [Quiet EXCEPT !.images = DescribedImages(choice), !.imagesKey = TRUE,
                              !.kept = kept])
    \/ \E req \in reqs, key \in BOOLEAN :
        LambdaHandler(LifecycleEvent("Custom::FindImage", req,
                                     <<Item("Owner", PyStr("amazon"))>>, FALSE),
                      [Quiet EXCEPT !.imagesKey = key])
    \/ \E req \in RequestTypes,
          rp \in {<<>>, <<Item("PreferredRootDeviceType", PyStr("ebs"))>>,
                  <<Item("Owner", PyStr("amazon"))>>} :
        /\ Has(rp, "Owner") => req = "Delete"
        /\ LambdaHandler(LifecycleEvent("Custom::FindImage", req, rp, TRUE), Quiet)

InvokeFindImage == Idle /\ FindImageOver(FewImageProfiles, {"Create", "Update"})

InvokeGeneratePassword ==
    Idle /\
   (\/ \E type \in Optional("PasswordType",
                            {PyStr("word"), PyStr("phrase"), PyStr("pin")}),
          a \in Optional("Chars", {PyStr("abc")}) \cup Optional("Charset", {PyStr("hex")})
                \cup Optional("Separator", {PyStr("-")}),
          b \in Optional("Words", {PyList(<<"a", "b">>)})
                \cup Optional("Wordset", {PyStr("eff_long")}),
          rest \in
            {[rp |-> <<>>, w |-> [Quiet EXCEPT !.password = "correct horse"]],
             [rp |-> <<Item("Entropy", PyInt(2))>>,
              w |-> [Quiet EXCEPT !.password = "correct horse"]],
             [rp |-> <<Item("Entropy", PyStr("2"))>>, w |-> Quiet],
             [rp |-> <<Item("EncryptionKey", PyStr("alias/key"))>>,
              w |-> [Quiet EXCEPT !.password = "correct horse", !.blob = <<65, 107>>]],
             [rp |-> <<Item("EncryptionKey", PyStr("alias/key"))>>,
              w |-> [Quiet EXCEPT !.password = "correct horse", !.kmsOk = FALSE]]} :
        LambdaHandler(LifecycleEvent("Custom::GeneratePassword", "Create",
                                     type \o a \o b \o rest.rp, FALSE),
                      rest.w)
    \/ \E req \in {"Update", "Delete"} :
        LambdaHandler(LifecycleEvent("Custom::GeneratePassword", req, <<>>, TRUE),
                      IF req = "Delete" THEN Quiet
                      ELSE [Quiet EXCEPT !.password = "correct horse"]))

InvokeSecureRandom ==
    Idle /\
   (\/ \E physical \in BOOLEAN, n \in 1..MaxSize, random \in ByteStrings :
        \E size \in {PyInt(n), PyStr(ReprInt(n))} :
            /\ Len(random) = n
            /\ LambdaHandler(LifecycleEvent("Custom::SecureRandom", "Create",
                                            <<Item("Size", size)>>, physical),
                             [Quiet EXCEPT !.random = random])
    \/ \E req \in RequestTypes,
          rp \in {<<>>} \cup {<<Item("Size", size)>> :
                      size \in {PyStr("0"), PyInt(0 - 1), PyStr("abc"), PyList(<<>>),
                                PyNone}} :
        LambdaHandler(LifecycleEvent("Custom::SecureRandom", req, rp, FALSE), Quiet)
    \/ LambdaHandler(LifecycleEvent("Custom::SecureRandom", "Delete",
                                    <<Item("Size", PyStr("1"))>>, FALSE), Quiet))

\* hash_password with the properties drawn from the sets
HashPasswordOver(sources, schemes, allows, parameters, others, reqs) ==
    \E source \in sources, scheme \in schemes, allow \in allows,
       parameter \in parameters, other \in others, req \in reqs :
        LambdaHandler(
            LifecycleEvent("Custom::HashPassword", req,
                           source.rp \o scheme \o allow \o parameter \o other, FALSE),
            IF req = "Delete" THEN Quiet ELSE [source.w EXCEPT !.hash = "$hash$"])

InvokeHashPassword ==
    Idle /\
   (\/ HashPasswordOver(PlaintextSources \cup OtherSources, FewSchemes,
                        FewAllowInsecures, FewSchemeParameters, FewOtherProperties,
                        {"Create"})
    \/ HashPasswordOver(PlaintextSources, FewSchemes, {<<>>}, {<<>>}, {<<>>},
                        {"Update", "Delete"}))

\* find_image over every answer of the image lookup
InvokeFindImageAny == Idle /\ FindImageOver(ImageProfiles, {"Create"})

\* hash_password over every shape of Scheme, AllowInsecure and the parameters
InvokeHashPasswordAny ==
    Idle /\
   (\/ HashPasswordOver(PlaintextSources, Schemes, AllowInsecures, SchemeParameters,
                        OtherProperties, {"Create", "Update"})
    \/ HashPasswordOver(OtherSources, Schemes, AllowInsecures, FewSchemeParameters,
                        FewOtherProperties, {"Create"}))

Init ==
    /\ pc = "idle"
    /\ apis \in [{"a1b2c3"} -> SUBSET {"*/*", "image/png"}]
    /\ prev = [toggle |-> FALSE, req |-> "", api |-> PyNone, failed |-> FALSE]
    /\ event = [ResourceType |-> "", RequestType |-> "", ResourceProperties |-> <<>>]
    /\ world = [Quiet EXCEPT !.uuid = ""]
    /\ invoked = <<>>
    /\ outcome = NoCall
    /\ calls = <<>>
    /\ escaped = FALSE
    /\ puts = <<>>

Next ==
    \/ InvokeApiGatewayBinary
    \/ InvokeUnregistered
    \/ InvokeFindImage
    \/ InvokeGeneratePassword
    \/ InvokeHashPassword
    \/ InvokeSecureRandom
    \/ ReturnToRuntime

Spec == Init /\ [][Next]_vars

\* the image ranking over every answer of the image lookup
InitFindImage == Init /\ apis["a1b2c3"] = {}
NextFindImage == InvokeFindImageAny \/ ReturnToRuntime
SpecFindImage == InitFindImage /\ [][NextFindImage]_vars

\* the hashing handler over every shape of its properties
InitHashPassword == Init /\ apis["a1b2c3"] = {}
NextHashPassword == InvokeHashPasswordAny \/ ReturnToRuntime
SpecHashPassword == InitHashPassword /\ [][NextHashPassword]_vars

-----------------------------------------------------------------------------
(* Properties of the dispatcher *)

Done == pc = "done"
IsFor(resource_type) == Done /\ event.ResourceType = resource_type
IsCreateOrUpdate == event.RequestType \in {"Create", "Update"}
\* the envelope the invocation delivered
Envelope == puts[1].data

\* C1: every invocation of lambda_handler, whether the resource type is unknown,
\* the handler returns or the handler raises, ends with exactly one PUT of the
\* envelope to the ResponseURL of its event; no error leaves lambda_handler.
C1_DeliveryOnEveryPath ==
    Done =>
        /\ ~escaped
        /\ Len(puts) = 1
        /\ puts[1].url = event.ResponseURL
        /\ Envelope.RequestId = event.RequestId
        /\ Envelope.Status \in {"SUCCESS", "FAILED"}

\* a handler raised an error that is no ValueError, and the envelope went out
C1_Witness ==
    /\ Done
    /\ outcome.raised
    /\ outcome.err.type = "KeyError"
    /\ Len(puts) = 1

\* C2: when the selected handler raises, the error stays inside lambda_handler
\* and the delivered envelope is FAILED, its Reason the message of the error
\* (for a KeyError the quoted key), with no Data.
C2_HandlerErrorBecomesFailed ==
    (Done /\ outcome.raised) =>
        /\ ~escaped
        /\ Len(puts) = 1
        /\ Envelope.Status = "FAILED"
        /\ "Reason" \in DOMAIN Envelope
        /\ Envelope.Reason = IF outcome.err.type = "KeyError"
                             THEN "'" \o outcome.err.arg \o "'"
                             ELSE outcome.err.arg
        /\ "Data" \notin DOMAIN Envelope

\* secure_random raised for a size that is no number, and the Reason says so
C2_Witness ==
    /\ IsFor("Custom::SecureRandom")
    /\ outcome.raised
    /\ Len(puts) = 1
    /\ Envelope.Reason = "Invalid size parameter: 'abc'"

RegisteredTypes == {"Custom::ApiGatewayBinary", "Custom::FindImage",
                    "Custom::GeneratePassword", "Custom::HashPassword",
                    "Custom::SecureRandom"}

\* C3: a ResourceType that is not exactly one of the five registered identifiers
\* invokes no handler and is answered FAILED with the Reason "Unknown resource
\* type <type>"; each of the five invokes exactly its own handler.
C3_ExactDispatch ==
    Done =>
        /\ event.ResourceType \notin RegisteredTypes =>
            /\ invoked = <<>>
            /\ Len(puts) = 1
            /\ Envelope.Status = "FAILED"
            /\ Envelope.Reason = "Unknown resource type " \o event.ResourceType
        /\ event.ResourceType = "Custom::ApiGatewayBinary" => invoked = <<"api_gateway_binary">>
        /\ event.ResourceType = "Custom::FindImage" => invoked = <<"find_image">>
        /\ event.ResourceType = "Custom::GeneratePassword" => invoked = <<"generate_password">>
        /\ event.ResourceType = "Custom::HashPassword" => invoked = <<"hash_password">>
        /\ event.ResourceType = "Custom::SecureRandom" => invoked = <<"secure_random">>

\* a registered identifier in another case was answered as unknown
C3_Witness ==
    /\ IsFor("CUSTOM::SECURERANDOM")
    /\ invoked = <<>>
    /\ Len(puts) = 1
    /\ Envelope.Reason = "Unknown resource type CUSTOM::SECURERANDOM"

\* C4: a delivered envelope holds exactly one of Reason and Data: it is SUCCESS
\* exactly when Data is there and Reason is not, FAILED exactly when Reason is
\* there and Data is not.
C4_ReasonXorData ==
    (Done /\ puts # <<>>) =>
        LET hasReason == "Reason" \in DOMAIN Envelope
            hasData == "Data" \in DOMAIN Envelope
        IN  /\ hasReason # hasData
            /\ Envelope.Status = "SUCCESS" <=> (hasData /\ ~hasReason)
            /\ Envelope.Status = "FAILED" <=> (hasReason /\ ~hasData)

\* a handler returned data and the envelope is SUCCESS with Data and no Reason
C4_Witness ==
    /\ IsFor("Custom::SecureRandom")
    /\ ~outcome.raised /\ ~outcome.none
    /\ Len(puts) = 1
    /\ Envelope.Status = "SUCCESS"
    /\ "Data" \in DOMAIN Envelope
    /\ "Reason" \notin DOMAIN Envelope

(* Properties of the binary media toggle *)

SameDirection(a, b) ==
    \/ a \in {"Create", "Update"} /\ b \in {"Create", "Update"}
    \/ a = "Delete" /\ b = "Delete"

\* the invocation repeats the toggle the preceding invocation carried out
RepeatsToggle ==
    /\ IsFor("Custom::ApiGatewayBinary")
    /\ prev.toggle /\ ~prev.failed
    /\ prev.api = GetOr(event.ResourceProperties, "RestApiId", PyNone)
    /\ SameDirection(prev.req, event.RequestType)

\* the patches of an invocation fit the state the API was in when it began
PatchesOnlyWhenNeeded ==
    (pc = "idle" /\ pc' = "done" /\ event'.ResourceType = "Custom::ApiGatewayBinary") =>
        /\ Len(calls') <= 1
        /\ \A i \in 1..Len(calls') :
            /\ calls'[i].path = "/binaryMediaTypes/*~1*"
            /\ calls'[i].op = "add" =>
                /\ event'.RequestType \in {"Create", "Update"}
                /\ "*/*" \notin apis[calls'[i].restApiId]
            /\ calls'[i].op = "remove" =>
                /\ event'.RequestType = "Delete"
                /\ "*/*" \in apis[calls'[i].restApiId]
        /\ (calls' = <<>> /\ ~outcome'.raised) =>
            LET id == Get(event'.ResourceProperties, "RestApiId").s
            IN  ("*/*" \in apis[id]) <=> (event'.RequestType \in {"Create", "Update"})

\* C9: the toggle is idempotent: a Create/Update adds the wildcard only when it is
\* absent, a Delete removes it only when it is present, and an invocation that
\* repeats the toggle of the preceding one raises nothing and patches nothing.
C9_ToggleIdempotent ==
    /\ [](RepeatsToggle =>
            /\ calls = <<>>
            /\ ~outcome.raised
            /\ Envelope.Status = "SUCCESS")
    /\ [][PatchesOnlyWhenNeeded]_vars

\* a second Create on an API that had other binary media types before the first
C9_Witness ==
    /\ RepeatsToggle
    /\ event.RequestType = "Create"
    /\ prev.req = "Create"
    /\ apis["a1b2c3"] = {"*/*", "image/png"}
    /\ calls = <<>>

(* Properties of the image ranking *)

\* a Create/Update find_image call that reached the image lookup
FindImageLooksUp ==
    /\ IsFor("Custom::FindImage")
    /\ IsCreateOrUpdate
    /\ Has(event.ResourceProperties, "Owner")

\* the positions, in the answer of the lookup, of the images the filter kept
Candidates ==
    IF world.imagesKey THEN world.kept \cap (1..Len(world.images)) ELSE {}

MatchesPreference(key, attribute) ==
    \/ ~Has(event.ResourceProperties, key)
    \/ Get(event.ResourceProperties, key) = PyStr(attribute)
MatchesVirtualization(i) ==
    MatchesPreference("PreferredVirtualizationType", world.images[i].VirtualizationType)
MatchesRootDevice(i) ==
    MatchesPreference("PreferredRootDeviceType", world.images[i].RootDeviceType)
Created(i) == parse_date(world.images[i].CreationDate)

\* image i ranks strictly above image j
RanksAbove(i, j) ==
    \/ MatchesVirtualization(i) /\ ~MatchesVirtualization(j)
    \/ /\ MatchesVirtualization(i) = MatchesVirtualization(j)
       /\ MatchesRootDevice(i) /\ ~MatchesRootDevice(j)
    \/ /\ MatchesVirtualization(i) = MatchesVirtualization(j)
       /\ MatchesRootDevice(i) = MatchesRootDevice(j)
       /\ Created(i) > Created(j)
RanksEqual(i, j) ==
    /\ MatchesVirtualization(i) = MatchesVirtualization(j)
    /\ MatchesRootDevice(i) = MatchesRootDevice(j)
    /\ Created(i) = Created(j)

PositionOf(id) == CHOOSE i \in 1..Len(world.images) : world.images[i].ImageId = id

\* C5: with candidates left, MatchingImageIds lists every candidate, none removed
\* by a preference, in descending order of (matches the preferred virtualization
\* type, matches the preferred root device type, creation date); an absent
\* preference matches every image; candidates equal in all three keep the order
\* the lookup gave them; ImageId is the first of the list.
C5_RankingOfAllCandidates ==
    (FindImageLooksUp /\ Candidates # {}) =>
        /\ ~outcome.raised
        /\ Has(outcome.data, "MatchingImageIds")
        /\ Has(outcome.data, "ImageId")
        /\ LET ids == Get(outcome.data, "MatchingImageIds").l
           IN  /\ Len(ids) = Cardinality(Candidates)
               /\ {ids[a] : a \in 1..Len(ids)}
                    = {world.images[i].ImageId : i \in Candidates}
               /\ \A a, b \in 1..Len(ids) :
                    a < b =>
                        \/ RanksAbove(PositionOf(ids[a]), PositionOf(ids[b]))
                        \/ /\ RanksEqual(PositionOf(ids[a]), PositionOf(ids[b]))
                           /\ PositionOf(ids[a]) < PositionOf(ids[b])
               /\ Get(outcome.data, "ImageId") = PyStr(ids[1])
        /\ Envelope.Status = "SUCCESS"
        /\ Envelope.Data = outcome.data

\* no image is of the preferred virtualization type and two images of one
\* instant, written in two time zones, kept the order of the lookup
C5_Witness ==
    /\ FindImageLooksUp
    /\ Candidates = {1, 2}
    /\ Has(event.ResourceProperties, "PreferredVirtualizationType")
    /\ \A i \in Candidates : ~MatchesVirtualization(i)
    /\ world.images[1].CreationDate = "2020-01-01T01:00:00.000+01:00"
    /\ world.images[2].CreationDate = "2020-01-01T00:00:00.000Z"
    /\ world.images[1].RootDeviceType = world.images[2].RootDeviceType
    /\ ~outcome.raised
    /\ Get(outcome.data, "MatchingImageIds") = PyList(<<"ami-1", "ami-2">>)

\* C6: find_image fails with the "no match" error whenever no candidate is left:
\* when the lookup returns no image, and when it returns images of which the
\* name and description filter keeps none.
C6_EmptyPoolIsNoMatch ==
    (FindImageLooksUp /\ Candidates = {}) =>
        /\ outcome.raised
        /\ outcome.err = Err("ValueError", "No AMIs found that match the filters applied.")

(* Properties of the hashing handler *)

HashRequest == IsFor("Custom::HashPassword") /\ IsCreateOrUpdate
Properties == event.ResourceProperties

\* the password source of the request was accepted, so scheme resolution ran
SourceAccepted ==
    /\ Has(Properties, "PlaintextPassword") # Has(Properties, "CiphertextBase64Password")
    /\ IF Has(Properties, "PlaintextPassword")
       THEN handle_plaintext_password_hash_params(Properties).ok
       ELSE handle_ciphertext_password_hash_params(Properties, world).ok

SchemeGiven == GetOr(Properties, "Scheme", PyNone)
SchemeUnusable == SchemeGiven.ty # "str" \/ SchemeGiven.s = ""
SchemeKnown == ~SchemeUnusable /\ ReplaceHyphens(SchemeGiven.s) \in DOMAIN HashAlgorithms
Descriptor == HashAlgorithms[ReplaceHyphens(SchemeGiven.s)]

TrueWords == {"y", "yes", "t", "true", "on", "1"}
FalseWords == {"n", "no", "f", "false", "off", "0"}
AllowGiven == GetOr(Properties, "AllowInsecure", PyNone)
AllowIsTrue ==
    /\ Has(Properties, "AllowInsecure")
    /\ \/ AllowGiven = PyBool(TRUE)
       \/ AllowGiven.ty = "str" /\ LowerWord(AllowGiven.s) \in TrueWords
AllowIsFalse ==
    \/ ~Has(Properties, "AllowInsecure")
    \/ AllowGiven = PyBool(FALSE)
    \/ AllowGiven.ty = "str" /\ LowerWord(AllowGiven.s) \in FalseWords
AllowUnusable ==
    /\ Has(Properties, "AllowInsecure")
    /\ \/ AllowGiven.ty \in {"list", "dict"}
       \/ AllowGiven.ty = "str" /\ LowerWord(AllowGiven.s) \notin TrueWords \cup FalseWords

ReturnedHash == ~outcome.raised /\ Has(outcome.data, "Hash")
RaisedMessage(message) == outcome.raised /\ outcome.err.arg = message
InsecurityError ==
    RaisedMessage("Scheme " \o SchemeGiven.s
                  \o " is insecure and AllowInsecure was not specified")

\* C7: no Hash is returned for a scheme whose descriptor is insecure unless
\* AllowInsecure is the boolean true or a string of the true vocabulary; with
\* AllowInsecure absent, false or a false word the request fails with the
\* insecurity error; with AllowInsecure true, and for a secure scheme, the gate
\* rejects nothing.
C7_InsecureNeedsAllowInsecure ==
    (HashRequest /\ SourceAccepted /\ SchemeKnown) =>
        /\ (~Descriptor.is_secure /\ ReturnedHash) => AllowIsTrue
        /\ (~Descriptor.is_secure /\ AllowIsFalse) => InsecurityError
        /\ (~Descriptor.is_secure /\ AllowIsTrue) => ~InsecurityError
        /\ Descriptor.is_secure => ~InsecurityError

\* the parts of C7 that hold: the gate rejects when AllowInsecure is absent,
\* false or a false word, and rejects neither a true AllowInsecure nor a
\* secure scheme
C7_GateOnFalseOnly ==
    (HashRequest /\ SourceAccepted /\ SchemeKnown) =>
        /\ (~Descriptor.is_secure /\ AllowIsFalse) => InsecurityError
        /\ (~Descriptor.is_secure /\ AllowIsTrue) => ~InsecurityError
        /\ Descriptor.is_secure => ~InsecurityError

\* the properties left when the password source has been taken out
AfterSource ==
    IF Has(Properties, "PlaintextPassword")
    THEN handle_plaintext_password_hash_params(Properties).rp
    ELSE handle_ciphertext_password_hash_params(Properties, world).rp
Resolution == get_hash_algorithm(AfterSource)
\* the scheme is resolved and every declared parameter of the request is valid
ParametersParsed ==
    /\ SourceAccepted
    /\ Resolution.ok
    /\ ParseParameters(Resolution.algorithm.parameters, Resolution.rp, <<>>).ok

\* the keys the handler consumes for the resolved scheme, and those it does not
Consumed ==
    (IF Has(Properties, "PlaintextPassword") THEN {"PlaintextPassword"}
     ELSE {"CiphertextBase64Password", "EncryptionContext"})
    \cup {"Scheme", "AllowInsecure", "ServiceToken"}
    \cup {Descriptor.parameters[i].name : i \in 1..Len(Descriptor.parameters)}
Remaining == {Properties[i].k : i \in 1..Len(Properties)} \ Consumed
RemainingListed == JoinWith(", ", SelectSeq(KeyOrder, LAMBDA k : k \in Remaining))

\* C8: once the password source, Scheme, AllowInsecure and the declared
\* parameters of the resolved scheme are consumed, a remaining key other than
\* ServiceToken makes the request fail with "Unknown parameters", all remaining
\* keys listed in sorted order, and no hash is produced; with no such key the
\* error is not raised.
C8_UnknownParameters ==
    (HashRequest /\ ParametersParsed) =>
        IF Remaining # {}
        THEN /\ outcome.raised
             /\ outcome.err = Err("ValueError", "Unknown parameters: " \o RemainingListed)
             /\ ~ReturnedHash
             /\ Envelope.Status = "FAILED"
        ELSE ReturnedHash

\* two unknown keys given in descending order beside ServiceToken are listed
\* in ascending order
C8_Witness ==
    /\ HashRequest
    /\ ParametersParsed
    /\ Has(Properties, "ServiceToken")
    /\ Remaining = {"Extra", "Zone"}
    /\ \E i, j \in 1..Len(Properties) :
        i < j /\ Properties[i].k = "Zone" /\ Properties[j].k = "Extra"
    /\ RaisedMessage("Unknown parameters: Extra, Zone")

SchemeError ==
    IF SchemeGiven = PyNone THEN Err("ValueError", "Scheme must be specified")
    ELSE IF SchemeGiven.ty # "str" THEN Err("TypeError", "Scheme must be a string")
    ELSE Err("ValueError", "Scheme cannot be empty")
AllowError ==
    IF AllowGiven.ty = "str"
    THEN Err("ValueError", "invalid truth value " \o Repr(PyStr(LowerWord(AllowGiven.s))))
    ELSE Err("TypeError", "AllowInsecure must be true or false")
UnknownSchemeError == Err("ValueError", "Unknown scheme " \o Repr(SchemeGiven))
Raised(e) == outcome.raised /\ outcome.err = e

\* C10: scheme resolution checks in the order of the protocol steps 1 to 4: an
\* absent, non-string or empty Scheme is reported before the shape of
\* AllowInsecure is examined, an invalid AllowInsecure before the unknown
\* scheme, and the unknown scheme before the insecurity gate.
C10_SchemeCheckedFirst ==
    (HashRequest /\ SourceAccepted) =>
        IF SchemeUnusable THEN Raised(SchemeError)
        ELSE IF AllowUnusable THEN Raised(AllowError)
        ELSE IF ~SchemeKnown THEN Raised(UnknownSchemeError)
        ELSE (~Descriptor.is_secure /\ AllowIsFalse) => InsecurityError

\* C10 as the code has it: the shape of AllowInsecure is examined first, then an
\* absent, non-string or empty Scheme, then the unknown scheme, then the
\* insecurity gate; a request is rejected with the error of the earliest of
\* these checks it fails.
C10_AllowInsecureCheckedFirst ==
    (HashRequest /\ SourceAccepted) =>
        IF AllowUnusable THEN Raised(AllowError)
        ELSE IF SchemeUnusable THEN Raised(SchemeError)
        ELSE IF ~SchemeKnown THEN Raised(UnknownSchemeError)
        ELSE (~Descriptor.is_secure /\ AllowIsFalse) => InsecurityError

\* a request without Scheme whose AllowInsecure is a list is rejected for its
\* AllowInsecure
C10_Witness ==
    /\ HashRequest
    /\ SourceAccepted
    /\ ~Has(Properties, "Scheme")
    /\ AllowGiven.ty = "list"
    /\ Raised(Err("TypeError", "AllowInsecure must be true or false"))

====
